---- MODULE Spec2Model ----
(***************************************************************************)
(* A model of svg_converter.py: the form of SvgConverterApp, the export    *)
(* functions save_* with the filesystem they write, and the geometry of    *)
(* render_svg_to_pillow.                                                   *)
(*                                                                         *)
(*   Spec        the form and one export into a directory tree that may    *)
(*               already hold files (any profile, either source type)      *)
(*   SpecCustom  repeated exports of the Custom profile                      *)
(*   SpecRender  render_svg_to_pillow applied to bounded render requests   *)
(*   SpecRaster  png_render_to_pillow applied to the same requests         *)
(*   SpecFlatten pillow_flatten applied to bounded images and backgrounds  *)
(***************************************************************************)
EXTENDS Integers, Sequences, FiniteSets, TLC

(* ---------------------------- bounds ---------------------------------- *)

\* Stem counters 0..MaxPre-1 a file may already carry before the session.
MaxPre == 2
\* Number of Custom exports followed in SpecCustom.
MaxRepeats == 3
\* Canvas width and height range 1..MaxDim in SpecRender.
MaxDim == 5
\* Padding ranges 0..MaxPad in SpecRender.
MaxPad == 3
\* The rasterizer may return content of 1..MaxContent pixels per axis.
MaxContent == 6
\* Images of 1..MaxPixels pixels in SpecFlatten.
MaxPixels == 2

(* ------------------------- presets (catalogs) ------------------------- *)

Square(sizes) == [i \in 1..Len(sizes) |-> <<sizes[i], sizes[i]>>]

WINDOWS_ICO_SIZES == <<16, 24, 32, 48, 64, 128, 256>>
MAC_ICON_SIZES == <<16, 32, 64, 128, 256, 512, 1024>>
LINUX_ICON_SIZES == <<16, 22, 24, 32, 48, 64, 96, 128, 256, 512>>
ANDROID_ICON_SIZES == <<48, 72, 96, 144, 192, 512>>
IOS_ICON_SIZES == <<60, 76, 120, 152, 167, 180, 1024>>

DESKTOP_WALLPAPERS == << <<1280, 720>>, <<1920, 1080>>, <<2560, 1440>>, <<3840, 2160>> >>
PHONE_WALLPAPERS == << <<750, 1334>>, <<1080, 1920>>, <<1170, 2532>>, <<1440, 3040>> >>
TABLET_PORTRAIT_WALLPAPERS == << <<1536, 2048>>, <<1668, 2388>>, <<1600, 2560>> >>
TABLET_LANDSCAPE_WALLPAPERS == << <<2048, 1536>>, <<2388, 1668>>, <<2560, 1600>> >>

\* min(sizes) where max(sizes) is meant.
MinOf(sizes) == CHOOSE m \in {sizes[i] : i \in 1..Len(sizes)} :
                    \A i \in 1..Len(sizes) : m <= sizes[i]

\* max(sizes) of a non-empty list of integers.
MaxOf(sizes) == CHOOSE m \in {sizes[i] : i \in 1..Len(sizes)} :
                    \A i \in 1..Len(sizes) : sizes[i] <= m

\* The items of profileCombo, in order.
ProfileItems ==
    << "Custom export",
       "Create Windows icon (.ico)",
       "Create macOS icon (.icns)",
       "Create Linux icon PNGs",
       "Create Android app icons",
       "Create iOS app icons",
       "Export standard sizes: Computer",
       "Export standard sizes: Phone",
       "Export tablet sizes: Portrait",
       "Export tablet sizes: Landscape" >>

Profiles == {ProfileItems[i] : i \in 1..Len(ProfileItems)}

\* The items on_profile_changed puts into formatCombo for a profile.
FormatItemsFor(p) ==
    IF p = "Custom export" THEN <<"PNG", "JPG", "PDF", "BMP">>
    ELSE IF p = "Create Windows icon (.ico)" THEN <<"ICO">>
    ELSE IF p = "Create macOS icon (.icns)" THEN <<"ICNS">>
    ELSE <<"PNG", "JPG", "BMP">>

\* str.lower() on the texts the format combo can hold.
Lower(s) ==
    CASE s = "PNG" -> "png"
      [] s = "JPG" -> "jpg"
      [] s = "PDF" -> "pdf"
      [] s = "BMP" -> "bmp"
      [] s = "ICO" -> "ico"
      [] s = "ICNS" -> "icns"
      [] OTHER -> s

(* ------------------------------ state --------------------------------- *)

VARIABLES
    svg_path,       \* self.svg_path: "" (None) or the loaded source path
    pathLine,       \* text of the read-only path field
    createEnabled,  \* createBtn.isEnabled()
    profile,        \* profileCombo.currentText()
    formatItems,    \* items of formatCombo
    formatIndex,    \* current index of formatCombo (1-based, 0: none)
    spinEnabled,    \* widthSpin/heightSpin.isEnabled()
    widthSpin,      \* widthSpin.value()
    heightSpin,     \* heightSpin.value()
    paddingSpin,    \* paddingSpin.value()
    zoomSlider,     \* zoomSlider.value(), percent
    transparentBg,  \* transparentBg.isChecked()
    previewImage,   \* what the preview label shows
    system,         \* platform.system()
    preK,           \* stem counters of the files present before the session
    files,          \* files written in the session: path -> [mode, gen]
    dirs,           \* directories made by mkdir in the session
    exports,        \* exports run so far (on_create past the directory chooser)
    trace,          \* calls of the last export: renders, saves, the OS tool
    msg,            \* the last message box shown
    lastErr,        \* the exception the last export surfaced
    req,            \* SpecRender, SpecRaster, SpecFlatten: the arguments of the call
    res             \* SpecRender, SpecRaster, SpecFlatten: what the call computed

formVars == <<svg_path, pathLine, createEnabled, profile, formatItems, formatIndex,
              spinEnabled, widthSpin, heightSpin, paddingSpin, zoomSlider,
              transparentBg, previewImage>>
fsVars == <<system, preK, files, dirs, exports, trace, msg, lastErr>>
renderVars == <<req, res>>
vars == <<formVars, fsVars, renderVars>>

(* ----------------------------- paths ----------------------------------- *)

\* A path below the chosen output root.  The file name is <stem>.<ext>, with
\* the stem <name>, <name>_<w>x<h> (w > 0) and, for n > 0, a trailing _<n>.
MkPath(dir, name, w, h, ext) ==
    [dir |-> dir, name |-> name, w |-> w, h |-> h, n |-> 0, ext |-> ext]

NoPath == MkPath(<<>>, "", 0, 0, "")

\* path.with_stem(f"{path.stem}_{counter}") for a path whose stem carries no
\* counter yet (unique_path only ever rewrites the path it was given).
with_stem(path, counter) == [path EXCEPT !.n = counter]

\* Content of a file that was present before the session.
PreContent == [fmt |-> "?", mode |-> "?", flat |-> FALSE, gen |-> 0]

\* Path.exists() against the tree: a file of the session or one present before.
exists(fs, p) == p \in DOMAIN fs \/ p.n \in preK

\* What the tree holds at p ("absent" when nothing).
FileAt(fs, p) ==
    IF p \in DOMAIN fs THEN fs[p]
    ELSE IF p.n \in preK THEN PreContent
    ELSE [fmt |-> "absent", mode |-> "absent", flat |-> FALSE, gen |-> 0]

RECURSIVE unique_path_loop(_, _, _, _)
unique_path_loop(fs, path, new_path, counter) ==
    IF exists(fs, new_path)
    THEN unique_path_loop(fs, path, with_stem(path, counter), counter + 1)
    ELSE new_path

\* unique_path with an `if` for its `while`: one collision is stepped over.
unique_path_once(fs, path) == IF exists(fs, path) THEN with_stem(path, 1) ELSE path

unique_path(fs, path) == unique_path_loop(fs, path, path, 1)

\* The directory and all its parents (mkdir(parents=True)).
Parents(d) == {SubSeq(d, 1, k) : k \in 1..Len(d)}

(* ----------------------------- images --------------------------------- *)

\* mode: the Pillow mode; flat: the pixels were composited over the
\* background colour (by the opaque canvas or by pillow_flatten).
NoImg == [mode |-> "none", w |-> 0, h |-> 0, flat |-> FALSE]

\* Mode of the canvas render_svg_to_pillow returns.
CanvasMode(transparent) == IF transparent THEN "RGBA" ELSE "RGB"

convert(img, mode) == [img EXCEPT !.mode = mode]

pillow_flatten(img) ==
    IF img.mode # "RGBA"
    THEN convert(img, "RGB")
    ELSE [img EXCEPT !.mode = "RGB", !.flat = TRUE]

(* --------------------------- export steps ----------------------------- *)

\* An exception: its type, its message, the tool output the message quotes,
\* and the type of the exception it was raised from (__cause__).
NoErr == [type |-> "none", text |-> "", diag |-> "", cause |-> "none"]

\* The faults of one export: rf/sf/mf the ordinal of the render, per-file
\* save and mkdir call that raises (0: none), ef whether the ICO/ICNS
\* container encoder raises, rc the exit code of iconutil.  Only the encoder's
\* exception is ever caught, so one raising call besides it is all an export
\* can get to see.
Faults(nr, ns, nm, container) ==
    {f \in [rf : 0..nr, sf : 0..ns, mf : 0..nm,
            ef : IF container THEN BOOLEAN ELSE {FALSE},
            rc : IF container THEN {0, 1} ELSE {0}] :
        Cardinality({k \in {"rf", "sf", "mf"} : f[k] # 0}) <= 1}

\* A call an export made: ok tells whether it returned normally (for
\* iconutil: with exit code 0); sizes is the sizes= argument of a container
\* save, empty where none is passed.
Event(op, ok, path, w, h, mode, fmt) ==
    [op |-> op, ok |-> ok, path |-> path, w |-> w, h |-> h, mode |-> mode, fmt |-> fmt,
     sizes |-> << >>]

\* The running state of an export: the tree, the calls made, the image in
\* hand and the exception raised, if any.
Start(fs, ds) ==
    [files |-> fs, dirs |-> ds, trace |-> <<>>, nr |-> 0, ns |-> 0, nm |-> 0,
     img |-> NoImg, err |-> NoErr]

Ok(st) == st.err = NoErr

Raise(st, type, text, cause) ==
    [st EXCEPT !.err = [type |-> type, text |-> text, diag |-> "", cause |-> cause]]

mkdir(st, d, flt) ==
    IF ~Ok(st) THEN st
    ELSE LET k == st.nm + 1 IN
         IF flt.mf = k
         THEN Raise([st EXCEPT !.nm = k], "OSError", "mkdir", "none")
         ELSE [st EXCEPT !.nm = k, !.dirs = @ \cup Parents(d)]

\* render_svg_to_pillow as the export functions see it: a canvas of the
\* requested size in the canvas mode, or the rasterizer's exception.
render_svg(st, w, h, transparent, flt) ==
    IF ~Ok(st) THEN st
    ELSE LET k == st.nr + 1
             s == [st EXCEPT !.nr = k,
                             !.trace = Append(@, Event("render", flt.rf # k, NoPath, w, h, "", ""))]
         IN IF flt.rf = k
            THEN Raise(s, "RenderError", "render", "none")
            ELSE [s EXCEPT !.img = [mode |-> CanvasMode(transparent),
                                    w |-> w, h |-> h, flat |-> ~transparent]]

\* png_render_to_pillow: open, convert("RGBA"), resize to (width, height).
png_render_to_pillow(st, w, h, flt) ==
    IF ~Ok(st) THEN st
    ELSE LET k == st.nr + 1
             s == [st EXCEPT !.nr = k,
                             !.trace = Append(@, Event("render", flt.rf # k, NoPath, w, h, "", ""))]
         IN IF flt.rf = k
            THEN Raise(s, "RenderError", "open", "none")
            ELSE [s EXCEPT !.img = [mode |-> "RGBA", w |-> w, h |-> h, flat |-> FALSE]]

\* Apply an image operation to the image in hand.
OnImg(st, img) == IF Ok(st) THEN [st EXCEPT !.img = img] ELSE st

\* Image.save of a single file: a failing save leaves the tree as it was.
save(st, path, fmt, gen, flt) ==
    IF ~Ok(st) THEN st
    ELSE LET k == st.ns + 1
             s == [st EXCEPT !.ns = k,
                             !.trace = Append(@, Event("save", flt.sf # k, path, st.img.w,
                                                       st.img.h, st.img.mode, fmt))]
         IN IF flt.sf = k
            THEN Raise(s, "OSError", "save", "none")
            ELSE [s EXCEPT !.files = (path :> [fmt |-> fmt, mode |-> st.img.mode,
                                               flat |-> st.img.flat, gen |-> gen])
                                     @@ @]

\* Image.save(format="ICO"/"ICNS"): the container encoder.
save_container(st, path, fmt, sizes, gen, flt) ==
    IF ~Ok(st) THEN st
    ELSE LET s == [st EXCEPT !.trace = Append(@, [Event("encode", ~flt.ef, path, st.img.w,
                                                        st.img.h, st.img.mode, fmt)
                                                      EXCEPT !.sizes = sizes])]
         IN IF flt.ef
            THEN Raise(s, "EncodeError", "encode", "none")
            ELSE [s EXCEPT !.files = (path :> [fmt |-> fmt, mode |-> st.img.mode,
                                               flat |-> st.img.flat, gen |-> gen])
                                     @@ @]

\* Standard error of a failing iconutil run.
ToolStderr == "iconutil: stderr"

\* subprocess.run(["iconutil", "-c", "icns", iconset, "-o", icns_path]): on
\* exit code 0 the tool has written the container.
iconutil(st, icns_path, gen, flt) ==
    IF ~Ok(st) THEN st
    ELSE LET s == [st EXCEPT !.trace = Append(@, Event("iconutil", flt.rc = 0, icns_path, 0, 0,
                                                     "", "icns"))]
         IN IF flt.rc # 0 THEN s
            ELSE [s EXCEPT !.files = (icns_path :> [fmt |-> "icns", mode |-> "iconset",
                                                    flat |-> FALSE, gen |-> gen]) @@ @]

\* The flatten condition without its `or not transparent`.
NeedsFlatten_alpha(fmt, transparent) == fmt \in {"jpg", "jpeg", "bmp"}

\* fmt in ("jpg", "jpeg", "bmp") or not transparent
NeedsFlatten(fmt, transparent) == fmt \in {"jpg", "jpeg", "bmp"} \/ ~transparent

FlattenIf(st, cond) == IF cond THEN OnImg(st, pillow_flatten(st.img)) ELSE st

IconPath(dir, ext) == MkPath(dir, "icon", 0, 0, ext)

(* ------------------------ exports from a vector source ---------------- *)

save_windows_ico(st, sizes, transparent, gen, flt) ==
    LET s1 == mkdir(st, <<"windows">>, flt)
        base == MaxOf(sizes)
        s2 == render_svg(s1, base, base, transparent, flt)
        s3 == IF ~transparent /\ s2.img.mode # "RGB"
              THEN OnImg(s2, convert(s2.img, "RGB")) ELSE s2
        ico_path == unique_path(s3.files, IconPath(<<"windows">>, "ico"))
    IN save_container(s3, ico_path, "ico", Square(sizes), gen, flt)

\* platform.system() == "Darwin" with the test left out: the fallback on any OS.
OnMacOS_any == TRUE

\* platform.system() == "Darwin"
OnMacOS == system = "Darwin"

RECURSIVE icns_frames(_, _, _, _, _, _)
icns_frames(st, sizes, i, transparent, gen, flt) ==
    IF i > Len(sizes) \/ ~Ok(st) THEN st
    ELSE LET s1 == render_svg(st, sizes[i], sizes[i], transparent, flt)
             s2 == save(s1, MkPath(<<"macos", "icon.iconset">>, "icon",
                                   sizes[i], sizes[i], "png"), "png", gen, flt)
         IN icns_frames(s2, sizes, i + 1, transparent, gen, flt)

save_macos_icns(st, sizes_for_check, transparent, gen, flt) ==
    LET s1 == mkdir(st, <<"macos">>, flt)
        base == MaxOf(sizes_for_check)
        s2 == render_svg(s1, base, base, transparent, flt)
        s3 == FlattenIf(s2, ~transparent)
        icns_path == unique_path(s3.files, IconPath(<<"macos">>, "icns"))
        s4 == save_container(s3, icns_path, "icns", << >>, gen, flt)
    IN IF Ok(s3) /\ ~Ok(s4)
       THEN IF OnMacOS
            THEN LET e == s4.err
                     s5 == mkdir([s4 EXCEPT !.err = NoErr], <<"macos", "icon.iconset">>, flt)
                     s6 == icns_frames(s5, sizes_for_check, 1, transparent, gen, flt)
                     s7 == iconutil(s6, icns_path, gen, flt)
                 IN IF Ok(s7) /\ flt.rc # 0
                    THEN [s7 EXCEPT !.err = [type |-> "RuntimeError",
                                             text |-> "ICNS export failed (Pillow + iconutil): ",
                                             diag |-> ToolStderr, cause |-> e.type]]
                    ELSE s7
            ELSE s4
       ELSE s4

\* The loop of save_png_set with each size in a try/except of its own: a
\* failing size is skipped and the loop goes on.
RECURSIVE save_png_set_loop_skip(_, _, _, _, _, _, _, _, _)
save_png_set_loop_skip(st, base, name, sizes, i, transparent, fmt, gen, flt) ==
    IF i > Len(sizes) THEN st
    ELSE LET s == sizes[i]
             s0 == [st EXCEPT !.err = NoErr]
             s1 == render_svg(s0, s, s, transparent, flt)
             s2 == FlattenIf(s1, NeedsFlatten(fmt, transparent))
             s3 == save(s2, MkPath(base, name, s, s, fmt), fmt, gen, flt)
             s4 == IF Ok(st) THEN s3 ELSE [s3 EXCEPT !.err = st.err]
         IN save_png_set_loop_skip(s4, base, name, sizes, i + 1, transparent, fmt, gen, flt)

RECURSIVE save_png_set_loop(_, _, _, _, _, _, _, _, _)
save_png_set_loop(st, base, name, sizes, i, transparent, fmt, gen, flt) ==
    IF i > Len(sizes) \/ ~Ok(st) THEN st
    ELSE LET s == sizes[i]
             s1 == render_svg(st, s, s, transparent, flt)
             s2 == FlattenIf(s1, NeedsFlatten(fmt, transparent))
             s3 == save(s2, MkPath(base, name, s, s, fmt), fmt, gen, flt)
         IN save_png_set_loop(s3, base, name, sizes, i + 1, transparent, fmt, gen, flt)

save_png_set(st, label, name, sizes, transparent, fmt, gen, flt) ==
    LET base == <<label, name>>
    IN save_png_set_loop(mkdir(st, base, flt), base, name, sizes, 1,
                         transparent, fmt, gen, flt)

\* The loop of save_wallpapers writing each file before its render is checked:
\* a failed render leaves the previous image to be saved under the new name.
RECURSIVE save_wallpapers_loop_stale(_, _, _, _, _, _, _, _, _)
save_wallpapers_loop_stale(st, base, name, sizes, i, transparent, fmt, gen, flt) ==
    IF i > Len(sizes) THEN st
    ELSE LET sz == sizes[i]
             s1 == render_svg(st, sz[1], sz[2], transparent, flt)
             s2 == save([s1 EXCEPT !.err = NoErr], MkPath(base, name, sz[1], sz[2], fmt),
                        fmt, gen, flt)
             s3 == IF Ok(s1) THEN s2 ELSE [s2 EXCEPT !.err = s1.err]
         IN IF Ok(s3)
            THEN save_wallpapers_loop_stale(s3, base, name, sizes, i + 1, transparent,
                                            fmt, gen, flt)
            ELSE s3

RECURSIVE save_wallpapers_loop(_, _, _, _, _, _, _, _, _)
save_wallpapers_loop(st, base, name, sizes, i, transparent, fmt, gen, flt) ==
    IF i > Len(sizes) \/ ~Ok(st) THEN st
    ELSE LET sz == sizes[i]
             s1 == render_svg(st, sz[1], sz[2], transparent, flt)
             s2 == FlattenIf(s1, NeedsFlatten(fmt, transparent))
             s3 == save(s2, MkPath(base, name, sz[1], sz[2], fmt), fmt, gen, flt)
         IN save_wallpapers_loop(s3, base, name, sizes, i + 1, transparent, fmt, gen, flt)

\* save_wallpapers without the label directory: base = out_dir / "wallpapers" / name.
save_wallpapers_nolabel(st, label, name, sizes, transparent, fmt, gen, flt) ==
    LET base == <<"wallpapers", name>>
    IN save_wallpapers_loop(mkdir(st, base, flt), base, name, sizes, 1,
                            transparent, fmt, gen, flt)

save_wallpapers(st, label, name, sizes, transparent, fmt, gen, flt) ==
    LET base == <<"wallpapers", label, name>>
    IN save_wallpapers_loop(mkdir(st, base, flt), base, name, sizes, 1,
                            transparent, fmt, gen, flt)

save_custom(st, name, w, h, fmt, transparent, gen, flt) ==
    LET s1 == mkdir(st, <<"custom">>, flt)
        s2 == render_svg(s1, w, h, transparent, flt)
        out == unique_path(s2.files, MkPath(<<"custom">>, name, w, h, fmt))
    IN IF fmt = "pdf"
       THEN LET s3 == OnImg(s2, pillow_flatten(s2.img))
            IN save(OnImg(s3, convert(s3.img, "RGB")), out, "pdf", gen, flt)
       ELSE save(FlattenIf(s2, NeedsFlatten(fmt, transparent)), out, fmt, gen, flt)

(* ------------------------ exports from a raster source ---------------- *)

save_custom_png(st, name, w, h, fmt, transparent, gen, flt) ==
    LET s1 == mkdir(st, <<"custom">>, flt)
        s2 == png_render_to_pillow(s1, w, h, flt)
        out == unique_path(s2.files, MkPath(<<"custom">>, name, w, h, fmt))
    IN IF fmt = "pdf"
       THEN LET s3 == OnImg(s2, pillow_flatten(s2.img))
            IN save(OnImg(s3, convert(s3.img, "RGB")), out, "pdf", gen, flt)
       ELSE save(FlattenIf(s2, NeedsFlatten(fmt, transparent)), out, fmt, gen, flt)

save_windows_ico_png(st, sizes, transparent, gen, flt) ==
    LET s1 == mkdir(st, <<"windows">>, flt)
        base == MaxOf(sizes)
        s2 == png_render_to_pillow(s1, base, base, flt)
        s3 == IF ~transparent /\ s2.img.mode # "RGB"
              THEN OnImg(s2, convert(s2.img, "RGB")) ELSE s2
        ico_path == unique_path(s3.files, IconPath(<<"windows">>, "ico"))
    IN save_container(s3, ico_path, "ico", Square(sizes), gen, flt)

RECURSIVE icns_frames_png(_, _, _, _, _)
icns_frames_png(st, sizes, i, gen, flt) ==
    IF i > Len(sizes) \/ ~Ok(st) THEN st
    ELSE LET s1 == png_render_to_pillow(st, sizes[i], sizes[i], flt)
             s2 == save(s1, MkPath(<<"macos", "icon.iconset">>, "icon",
                                   sizes[i], sizes[i], "png"), "png", gen, flt)
         IN icns_frames_png(s2, sizes, i + 1, gen, flt)

save_macos_icns_png(st, sizes_for_check, transparent, gen, flt) ==
    LET s1 == mkdir(st, <<"macos">>, flt)
        base == MaxOf(sizes_for_check)
        s2 == png_render_to_pillow(s1, base, base, flt)
        s3 == FlattenIf(s2, ~transparent)
        icns_path == unique_path(s3.files, IconPath(<<"macos">>, "icns"))
        s4 == save_container(s3, icns_path, "icns", << >>, gen, flt)
    IN IF Ok(s3) /\ ~Ok(s4)
       THEN IF OnMacOS
            THEN LET e == s4.err
                     s5 == mkdir([s4 EXCEPT !.err = NoErr], <<"macos", "icon.iconset">>, flt)
                     s6 == icns_frames_png(s5, sizes_for_check, 1, gen, flt)
                     s7 == iconutil(s6, icns_path, gen, flt)
                 IN IF Ok(s7) /\ flt.rc # 0
                    THEN [s7 EXCEPT !.err = [type |-> "RuntimeError",
                                             text |-> "ICNS export failed (Pillow + iconutil): ",
                                             diag |-> ToolStderr, cause |-> e.type]]
                    ELSE s7
            ELSE s4
       ELSE s4

RECURSIVE save_png_set_png_loop(_, _, _, _, _, _, _, _, _)
save_png_set_png_loop(st, base, name, sizes, i, transparent, fmt, gen, flt) ==
    IF i > Len(sizes) \/ ~Ok(st) THEN st
    ELSE LET s == sizes[i]
             s1 == png_render_to_pillow(st, s, s, flt)
             s2 == FlattenIf(s1, NeedsFlatten(fmt, transparent))
             s3 == save(s2, MkPath(base, name, s, s, fmt), fmt, gen, flt)
         IN save_png_set_png_loop(s3, base, name, sizes, i + 1, transparent, fmt, gen, flt)

save_png_set_png(st, label, name, sizes, transparent, fmt, gen, flt) ==
    LET base == <<label, name>>
    IN save_png_set_png_loop(mkdir(st, base, flt), base, name, sizes, 1,
                             transparent, fmt, gen, flt)

RECURSIVE save_wallpapers_png_loop(_, _, _, _, _, _, _, _, _)
save_wallpapers_png_loop(st, base, name, sizes, i, transparent, fmt, gen, flt) ==
    IF i > Len(sizes) \/ ~Ok(st) THEN st
    ELSE LET sz == sizes[i]
             s1 == png_render_to_pillow(st, sz[1], sz[2], flt)
             s2 == FlattenIf(s1, NeedsFlatten(fmt, transparent))
             s3 == save(s2, MkPath(base, name, sz[1], sz[2], fmt), fmt, gen, flt)
         IN save_wallpapers_png_loop(s3, base, name, sizes, i + 1, transparent, fmt, gen, flt)

save_wallpapers_png(st, label, name, sizes, transparent, fmt, gen, flt) ==
    LET base == <<"wallpapers", label, name>>
    IN save_wallpapers_png_loop(mkdir(st, base, flt), base, name, sizes, 1,
                                transparent, fmt, gen, flt)

(* ----------------------------- the form ------------------------------- *)

\* The source files the file chooser can return ("" when cancelled).
LoadChoices == {"a.svg", "a.png"}

\* self.svg_path.lower().endswith('.png')
IsPng(path) == path = "a.png"

\* Path(self.svg_path).stem
Stem(path) == IF path \in LoadChoices THEN "a" ELSE ""

\* What update_preview leaves in the preview label: the pixmap of the
\* rendered source, or the text of the exception the render raised.
update_preview(path) ==
    IF path = "" THEN {"No source loaded"} ELSE {"pixmap", "Preview error"}

\* QComboBox.setCurrentText on a non-editable combo: the index of the text.
IndexOf(items, text) ==
    IF \E i \in 1..Len(items) : items[i] = text
    THEN CHOOSE i \in 1..Len(items) : items[i] = text
    ELSE 0

\* formatCombo.currentText()
currentFormat == IF formatIndex \in 1..Len(formatItems) THEN formatItems[formatIndex] ELSE ""

\* The format combo after on_profile_changed: cleared and refilled, the
\* current index on the first item, or on "PNG" where the code sets it.
FormatIndexAfter(p) ==
    IF p \in {"Custom export", "Create Windows icon (.ico)", "Create macOS icon (.icns)"}
    THEN 1
    ELSE IndexOf(FormatItemsFor(p), "PNG")

SpinEnabledFor(p) ==
    ~(p \in {"Create Windows icon (.ico)", "Create macOS icon (.icns)"})

\* on_profile_changed without formatCombo.clear(): the new items are added
\* after the old ones and the current index stays.
on_profile_changed_noclear ==
    \E p \in Profiles :
        /\ p # profile
        /\ profile' = p
        /\ formatItems' = formatItems \o FormatItemsFor(p)
        /\ formatIndex' = formatIndex
        /\ spinEnabled' = SpinEnabledFor(p)
        /\ previewImage' \in update_preview(svg_path)
        /\ UNCHANGED <<svg_path, pathLine, createEnabled, widthSpin, heightSpin,
                       paddingSpin, zoomSlider, transparentBg>>
        /\ UNCHANGED <<fsVars, renderVars>>

\* The user picks another profile: currentIndexChanged -> on_profile_changed.
on_profile_changed ==
    \E p \in Profiles :
        /\ p # profile
        /\ profile' = p
        /\ formatItems' = FormatItemsFor(p)
        /\ formatIndex' = FormatIndexAfter(p)
        /\ spinEnabled' = SpinEnabledFor(p)
        /\ previewImage' \in update_preview(svg_path)
        /\ UNCHANGED <<svg_path, pathLine, createEnabled, widthSpin, heightSpin,
                       paddingSpin, zoomSlider, transparentBg>>
        /\ UNCHANGED <<fsVars, renderVars>>

\* The user picks an item of the format combo (no handler is connected).
on_format_selected ==
    \E i \in 1..Len(formatItems) :
        /\ i # formatIndex
        /\ formatIndex' = i
        /\ UNCHANGED <<svg_path, pathLine, createEnabled, profile, formatItems,
                       spinEnabled, widthSpin, heightSpin, paddingSpin, zoomSlider,
                       transparentBg, previewImage>>
        /\ UNCHANGED <<fsVars, renderVars>>

\* on_load without its `if path:`: a cancelled chooser stores the empty path.
on_load_clear ==
    \E path \in LoadChoices \cup {""} :
        /\ svg_path' = path
        /\ pathLine' = path
        /\ createEnabled' = TRUE
        /\ previewImage' \in update_preview(path)
        /\ UNCHANGED <<profile, formatItems, formatIndex, spinEnabled, widthSpin,
                       heightSpin, paddingSpin, zoomSlider, transparentBg>>
        /\ UNCHANGED <<fsVars, renderVars>>

on_load ==
    \E path \in LoadChoices \cup {""} :
        /\ IF path # ""
           THEN /\ svg_path' = path
                /\ pathLine' = path
                /\ createEnabled' = TRUE
                /\ previewImage' \in update_preview(path)
           ELSE UNCHANGED <<svg_path, pathLine, createEnabled, previewImage>>
        /\ UNCHANGED <<profile, formatItems, formatIndex, spinEnabled, widthSpin,
                       heightSpin, paddingSpin, zoomSlider, transparentBg>>
        /\ UNCHANGED <<fsVars, renderVars>>

\* transparentBg.stateChanged -> update_preview
on_transparent_toggled ==
    /\ transparentBg' = ~transparentBg
    /\ previewImage' \in update_preview(svg_path)
    /\ UNCHANGED <<svg_path, pathLine, createEnabled, profile, formatItems, formatIndex,
                   spinEnabled, widthSpin, heightSpin, paddingSpin, zoomSlider>>
    /\ UNCHANGED <<fsVars, renderVars>>

(* ------------------- render_svg_to_pillow: geometry ------------------- *)

Max(a, b) == IF a >= b THEN a ELSE b
Min(a, b) == IF a <= b THEN a ELSE b

\* int(x) for a float x computed as a product whose exact value is n/d: the
\* floor of n/d, or one less when n/d is a whole number that the rounded
\* product may fall just short of (100 * 0.29 = 28.999999999999996).
\* exact: the factors and the product are representable, so no rounding.
FloatInt(n, d, exact) ==
    {n \div d} \cup (IF n % d = 0 /\ ~exact /\ n \div d >= 1 THEN {(n \div d) - 1} ELSE {})

\* The clamp without its upper end: zoom = max(0.1, zoom).
ClampZoom_open(zoom) == Max(10, zoom)

\* zoom = max(0.1, min(1.0, zoom)), in percent.
ClampZoom(zoom) == Max(10, Min(100, zoom))

\* The canvas, work area and rasterizer request of a render request, then the
\* content as placed, for a rasterizer that returned ret_w x ret_h pixels.
\* rw, rh, nw, nh are the outcomes of the four float-to-int conversions.
Composite(r, rw, rh, ret_w, ret_h, nw, nh) ==
    LET canvas_w == Max(1, r.width)
        canvas_h == Max(1, r.height)
        work_w == Max(1, canvas_w - 2 * r.padding)
        work_h == Max(1, canvas_h - 2 * r.padding)
        resized == ret_w > work_w \/ ret_h > work_h
        content_w == IF resized THEN Max(1, nw) ELSE ret_w
        content_h == IF resized THEN Max(1, nh) ELSE ret_h
    IN [done |-> TRUE,
        canvas_w |-> canvas_w, canvas_h |-> canvas_h,
        work_w |-> work_w, work_h |-> work_h,
        render_w |-> Max(1, rw), render_h |-> Max(1, rh),
        ret_w |-> ret_w, ret_h |-> ret_h, resized |-> resized,
        content_w |-> content_w, content_h |-> content_h,
        cx |-> (canvas_w - content_w) \div 2,
        cy |-> (canvas_h - content_h) \div 2,
        mode |-> CanvasMode(r.transparent)]

\* The scale taken from the width alone: scale = min(work_w / cw, 1.0).
ScaleOf_width(work_w, work_h, cw, ch) == <<work_w, cw>>

\* Numerator and denominator of scale = min(work_w / cw, work_h / ch, 1.0)
\* when it is below 1.
ScaleOf(work_w, work_h, cw, ch) ==
    IF work_w * ch <= work_h * cw THEN <<work_w, cw>> ELSE <<work_h, ch>>

\* The results for a rasterizer request rw x rh answered with ret_w x ret_h.
ResizeResults(r, work_w, work_h, rw, rh, ret_w, ret_h) ==
    LET sc == ScaleOf(work_w, work_h, ret_w, ret_h)
    IN { Composite(r, rw, rh, ret_w, ret_h, nw, nh) :
           nw \in FloatInt(ret_w * sc[1], sc[2], FALSE),
           nh \in FloatInt(ret_h * sc[1], sc[2], FALSE) }

\* Every result render_svg_to_pillow can compute for request r.
RenderResults(r) ==
    LET z == ClampZoom(r.zoom)
        work_w == Max(1, Max(1, r.width) - 2 * r.padding)
        work_h == Max(1, Max(1, r.height) - 2 * r.padding)
    IN UNION { ResizeResults(r, work_w, work_h, rw, rh, ret[1], ret[2]) :
                 rw \in FloatInt(work_w * z, 100, z = 100),
                 rh \in FloatInt(work_h * z, 100, z = 100),
                 ret \in (1..MaxContent) \X (1..MaxContent) }

\* Zoom values handed to render_svg_to_pillow, in percent.
ZoomChoices == {5, 10, 20, 50, 100, 150}

RenderRequests ==
    [width : 1..MaxDim, height : 1..MaxDim, zoom : ZoomChoices,
     padding : 0..MaxPad, transparent : BOOLEAN]

\* One call of render_svg_to_pillow on the request.
render_svg_to_pillow ==
    /\ ~res.done
    /\ res' \in RenderResults(req)
    /\ UNCHANGED <<req, formVars, fsVars>>

\* png_render_to_pillow(path, width, height): the source stretched to exactly
\* width x height by resize; zoom, padding and the background are not among
\* its arguments, and the export functions save the image as it is, so it is
\* the whole canvas.  The work area is what render_svg_to_pillow would allow.
PngResize(r) ==
    [done |-> TRUE,
     canvas_w |-> r.width, canvas_h |-> r.height,
     work_w |-> Max(1, Max(1, r.width) - 2 * r.padding),
     work_h |-> Max(1, Max(1, r.height) - 2 * r.padding),
     content_w |-> r.width, content_h |-> r.height,
     cx |-> 0, cy |-> 0,
     mode |-> "RGBA"]

\* One call of png_render_to_pillow for the size of the request.
png_render ==
    /\ ~res.done
    /\ res' = PngResize(req)
    /\ UNCHANGED <<req, formVars, fsVars>>

(* ---------------------- pillow_flatten: pixels ------------------------ *)

\* Channel values of the images and colours tried.
ColourLevels == {0, 200}
AlphaLevels == {0, 128, 255}

\* The pixels of a mode: RGBA (r, g, b, a), RGB (r, g, b), LA (l, a), L (l).
PixelsOf(mode) ==
    CASE mode = "RGBA" -> ColourLevels \X ColourLevels \X ColourLevels \X AlphaLevels
      [] mode = "RGB" -> ColourLevels \X ColourLevels \X ColourLevels
      [] mode = "LA" -> ColourLevels \X AlphaLevels
      [] mode = "L" -> {<<l>> : l \in ColourLevels}

Images ==
    UNION { [mode : {m}, px : [1..n -> PixelsOf(m)]] :
              m \in {"RGBA", "RGB", "LA", "L"}, n \in 1..MaxPixels }

\* qcolor_to_rgba_tuple(bg): (red, green, blue, alpha).
BgColours == ColourLevels \X ColourLevels \X ColourLevels \X AlphaLevels

\* Image.convert("RGB"): the colour channels, grey spread over the three,
\* an alpha channel dropped.
convert_RGB(img) ==
    [mode |-> "RGB",
     px |-> [i \in DOMAIN img.px |->
               IF img.mode \in {"RGBA", "RGB"}
               THEN <<img.px[i][1], img.px[i][2], img.px[i][3]>>
               ELSE <<img.px[i][1], img.px[i][1], img.px[i][1]>>]]

\* Pillow's rounded division by 255.
Div255(a) == LET t == a + 128 IN ((t \div 256) + t) \div 256

\* One channel of Image.paste with a mask: in1 under, in2 over.
Blend(mask, in1, in2) == Div255(in1 * (255 - mask) + in2 * mask)

\* pillow_flatten pasting onto a canvas Image.new("RGBA", size, bg_rgba): the
\* result keeps an alpha channel, that of the background under the mask.
pillow_flatten_pixels_rgba(img, bg_rgba) ==
    IF img.mode # "RGBA" THEN convert_RGB(img)
    ELSE [mode |-> "RGBA",
          px |-> [i \in DOMAIN img.px |->
                    LET a == img.px[i][4] IN
                    <<Blend(a, bg_rgba[1], img.px[i][1]),
                      Blend(a, bg_rgba[2], img.px[i][2]),
                      Blend(a, bg_rgba[3], img.px[i][3]),
                      Blend(a, bg_rgba[4], 255)>>]]

\* pillow_flatten(img, bg_rgba) on the pixels.
pillow_flatten_pixels(img, bg_rgba) ==
    IF img.mode # "RGBA" THEN convert_RGB(img)
    ELSE LET bg_rgb == <<bg_rgba[1], bg_rgba[2], bg_rgba[3]>>
             img_rgb == convert_RGB(img)
         IN [mode |-> "RGB",
             px |-> [i \in DOMAIN img.px |->
                       LET mask == img.px[i][4] IN
                       <<Blend(mask, bg_rgb[1], img_rgb.px[i][1]),
                         Blend(mask, bg_rgb[2], img_rgb.px[i][2]),
                         Blend(mask, bg_rgb[3], img_rgb.px[i][3])>>]]

\* One call of pillow_flatten: on the image of the request, then on its own
\* result, with the same background.
flatten_step ==
    /\ res.n < 2
    /\ LET src == IF res.n = 0 THEN req.img ELSE res.out
           out == pillow_flatten_pixels(src, req.bg)
       IN res' = [done |-> TRUE, n |-> res.n + 1, out |-> out,
                  first |-> IF res.n = 0 THEN out ELSE res.first]
    /\ UNCHANGED <<req, formVars, fsVars>>

(* ------------------------------ on_create ------------------------------ *)

IsSetProfile(p) ==
    p \in {"Create Linux icon PNGs", "Create Android app icons", "Create iOS app icons"}

IsWallpaperProfile(p) ==
    p \in {"Export standard sizes: Computer", "Export standard sizes: Phone",
           "Export tablet sizes: Portrait", "Export tablet sizes: Landscape"}

IsContainerProfile(p) ==
    p \in {"Create Windows icon (.ico)", "Create macOS icon (.icns)"}

\* The size list on_create hands to the export function of a profile.
SizesOf(p, w, h) ==
    CASE p = "Custom export" -> << <<w, h>> >>
      [] p = "Create Windows icon (.ico)" -> Square(WINDOWS_ICO_SIZES)
      [] p = "Create macOS icon (.icns)" -> Square(MAC_ICON_SIZES)
      [] p = "Create Linux icon PNGs" -> Square(LINUX_ICON_SIZES)
      [] p = "Create Android app icons" -> Square(ANDROID_ICON_SIZES)
      [] p = "Create iOS app icons" -> Square(IOS_ICON_SIZES)
      [] p = "Export standard sizes: Computer" -> DESKTOP_WALLPAPERS
      [] p = "Export standard sizes: Phone" -> PHONE_WALLPAPERS
      [] p = "Export tablet sizes: Portrait" -> TABLET_PORTRAIT_WALLPAPERS
      [] p = "Export tablet sizes: Landscape" -> TABLET_LANDSCAPE_WALLPAPERS

\* The label argument of save_png_set / save_wallpapers for a profile.
LabelOf(p) ==
    CASE p = "Create Linux icon PNGs" -> "linux"
      [] p = "Create Android app icons" -> "android"
      [] p = "Create iOS app icons" -> "ios"
      [] p = "Export standard sizes: Computer" -> "desktop"
      [] p = "Export standard sizes: Phone" -> "phone"
      [] p = "Export tablet sizes: Portrait" -> "tablet_portrait"
      [] p = "Export tablet sizes: Landscape" -> "tablet_landscape"
      [] OTHER -> ""

\* The faults worth telling apart in an export of profile p: one ordinal per
\* render and per-file save the export can reach.
FaultsOf(p) ==
    CASE p = "Custom export" -> Faults(1, 1, 1, FALSE)
      [] p = "Create Windows icon (.ico)" -> Faults(1, 0, 1, TRUE)
      [] p = "Create macOS icon (.icns)" ->
             Faults(1 + Len(MAC_ICON_SIZES), Len(MAC_ICON_SIZES), 2, TRUE)
      [] OTHER -> Faults(Len(SizesOf(p, 0, 0)), Len(SizesOf(p, 0, 0)), 1, FALSE)

\* The if/elif chain of on_create for a raster source.
export_png(st, p, name, w, h, fmt, transparent, gen, flt) ==
    CASE p = "Custom export" ->
             save_custom_png(st, name, w, h, fmt, transparent, gen, flt)
      [] p = "Create Windows icon (.ico)" ->
             save_windows_ico_png(st, WINDOWS_ICO_SIZES, transparent, gen, flt)
      [] p = "Create macOS icon (.icns)" ->
             save_macos_icns_png(st, MAC_ICON_SIZES, transparent, gen, flt)
      [] p = "Create Linux icon PNGs" ->
             save_png_set_png(st, "linux", name, LINUX_ICON_SIZES, transparent, fmt, gen, flt)
      [] p = "Create Android app icons" ->
             save_png_set_png(st, "android", name, ANDROID_ICON_SIZES, transparent, fmt, gen, flt)
      [] p = "Create iOS app icons" ->
             save_png_set_png(st, "ios", name, IOS_ICON_SIZES, transparent, fmt, gen, flt)
      [] p = "Export standard sizes: Computer" ->
             save_wallpapers_png(st, "desktop", name, DESKTOP_WALLPAPERS, transparent, fmt, gen, flt)
      [] p = "Export standard sizes: Phone" ->
             save_wallpapers_png(st, "phone", name, PHONE_WALLPAPERS, transparent, fmt, gen, flt)
      [] p = "Export tablet sizes: Portrait" ->
             save_wallpapers_png(st, "tablet_portrait", name, TABLET_PORTRAIT_WALLPAPERS,
                                 transparent, fmt, gen, flt)
      [] p = "Export tablet sizes: Landscape" ->
             save_wallpapers_png(st, "tablet_landscape", name, TABLET_LANDSCAPE_WALLPAPERS,
                                 transparent, fmt, gen, flt)

\* The if/elif chain of on_create for a vector source.
export_svg(st, p, name, w, h, fmt, transparent, gen, flt) ==
    CASE p = "Custom export" ->
             save_custom(st, name, w, h, fmt, transparent, gen, flt)
      [] p = "Create Windows icon (.ico)" ->
             save_windows_ico(st, WINDOWS_ICO_SIZES, transparent, gen, flt)
      [] p = "Create macOS icon (.icns)" ->
             save_macos_icns(st, MAC_ICON_SIZES, transparent, gen, flt)
      [] p = "Create Linux icon PNGs" ->
             save_png_set(st, "linux", name, LINUX_ICON_SIZES, transparent, fmt, gen, flt)
      [] p = "Create Android app icons" ->
             save_png_set(st, "android", name, ANDROID_ICON_SIZES, transparent, fmt, gen, flt)
      [] p = "Create iOS app icons" ->
             save_png_set(st, "ios", name, IOS_ICON_SIZES, transparent, fmt, gen, flt)
      [] p = "Export standard sizes: Computer" ->
             save_wallpapers(st, "desktop", name, DESKTOP_WALLPAPERS, transparent, fmt, gen, flt)
      [] p = "Export standard sizes: Phone" ->
             save_wallpapers(st, "phone", name, PHONE_WALLPAPERS, transparent, fmt, gen, flt)
      [] p = "Export tablet sizes: Portrait" ->
             save_wallpapers(st, "tablet_portrait", name, TABLET_PORTRAIT_WALLPAPERS,
                             transparent, fmt, gen, flt)
      [] p = "Export tablet sizes: Landscape" ->
             save_wallpapers(st, "tablet_landscape", name, TABLET_LANDSCAPE_WALLPAPERS,
                             transparent, fmt, gen, flt)

\* The try block of on_create on the values it read from the form.
Export(flt) ==
    LET fmt == Lower(currentFormat)
        name == Stem(svg_path)
        st == Start(files, dirs)
    IN IF IsPng(svg_path)
       THEN export_png(st, profile, name, widthSpin, heightSpin, fmt, transparentBg,
                       exports + 1, flt)
       ELSE export_svg(st, profile, name, widthSpin, heightSpin, fmt, transparentBg,
                       exports + 1, flt)

\* A click on the enabled Create button; out is what the directory chooser
\* returned ("" when cancelled).
on_create ==
    /\ createEnabled
    /\ \E out \in {"", "out"} :
        IF svg_path = ""
        THEN /\ msg' = "warning: No source"
             /\ UNCHANGED <<system, preK, files, dirs, exports, trace, lastErr>>
        ELSE IF out = ""
        THEN UNCHANGED fsVars
        ELSE \E flt \in FaultsOf(profile) :
                LET st == Export(flt) IN
                /\ files' = st.files
                /\ dirs' = st.dirs
                /\ trace' = st.trace
                /\ lastErr' = st.err
                /\ msg' = IF Ok(st) THEN "information: Done" ELSE "critical: Error"
                /\ exports' = exports + 1
                /\ UNCHANGED <<system, preK>>
    /\ UNCHANGED <<formVars, renderVars>>

(* --------------------------- specifications --------------------------- *)

Systems == {"Darwin", "Linux"}

NoReq == [width |-> 0, height |-> 0, zoom |-> 0, padding |-> 0, transparent |-> FALSE]
NoRes == [done |-> FALSE]

\* The form as __init__ leaves it.
InitForm ==
    /\ svg_path = ""
    /\ pathLine = ""
    /\ createEnabled = FALSE
    /\ profile = ProfileItems[1]
    /\ formatItems = FormatItemsFor(ProfileItems[1])
    /\ formatIndex = FormatIndexAfter(ProfileItems[1])
    /\ spinEnabled = SpinEnabledFor(ProfileItems[1])
    /\ widthSpin = 1024
    /\ heightSpin = 1024
    /\ paddingSpin = 0
    /\ zoomSlider = 100
    /\ transparentBg = TRUE
    /\ previewImage = "No source loaded"

InitSession ==
    /\ files = << >>
    /\ dirs = {}
    /\ exports = 0
    /\ trace = << >>
    /\ msg = "none"
    /\ lastErr = NoErr

\* Any files with stem counters below MaxPre may be in the tree already.
Init ==
    /\ InitForm
    /\ InitSession
    /\ system \in Systems
    /\ preK \in SUBSET (0..(MaxPre - 1))
    /\ req = NoReq
    /\ res = NoRes

\* A session up to and including its first export.
Next ==
    \/ exports = 0 /\ on_load
    \/ exports = 0 /\ on_profile_changed
    \/ exports = 0 /\ on_format_selected
    \/ exports = 0 /\ on_transparent_toggled
    \/ exports = 0 /\ on_create

Spec == Init /\ [][Next]_vars

\* Repeated exports of the Custom profile, the profile the form starts with.
InitCustom ==
    /\ InitForm
    /\ InitSession
    /\ system = "Linux"
    /\ preK \in SUBSET (0..(MaxPre - 1))
    /\ req = NoReq
    /\ res = NoRes

NextCustom ==
    \/ exports < MaxRepeats /\ on_load
    \/ exports < MaxRepeats /\ on_format_selected
    \/ exports < MaxRepeats /\ on_transparent_toggled
    \/ exports < MaxRepeats /\ on_create

SpecCustom == InitCustom /\ [][NextCustom]_vars

\* render_svg_to_pillow on every request within the bounds.
InitRender ==
    /\ InitForm
    /\ InitSession
    /\ system = "Linux"
    /\ preK = {}
    /\ req \in RenderRequests
    /\ res = [done |-> FALSE]

NextRender == render_svg_to_pillow

SpecRender == InitRender /\ [][NextRender]_vars

\* The image a raster-source export writes for every request within the bounds.
NextRaster == png_render

SpecRaster == InitRender /\ [][NextRaster]_vars

\* pillow_flatten on every image and background within the bounds.
InitFlatten ==
    /\ InitForm
    /\ InitSession
    /\ system = "Linux"
    /\ preK = {}
    /\ req \in [img : Images, bg : BgColours]
    /\ res = [done |-> FALSE, n |-> 0]

NextFlatten == flatten_step

SpecFlatten == InitFlatten /\ [][NextFlatten]_vars

(* ------------------------------- claims ------------------------------- *)

\* The step is an export: on_create went past the directory chooser.
ExportStep == exports' = exports + 1

\* The files the tree holds after the step that it did not hold, or held
\* with another content, before.
Touched == {p \in DOMAIN files' : FileAt(files, p) # files'[p]}

\* C1: in every per-file export (Custom, the size sets, the wallpaper sets;
\* vector or raster source), whatever files the destination already holds,
\* no file that existed before the export is overwritten: an output whose
\* name is taken goes to the stem suffixed _1, _2, ... instead.
C1_NeverOverwrites ==
    [][ (ExportStep /\ ~IsContainerProfile(profile))
            => \A p \in Touched : ~exists(files, p) ]_vars

\* The name save_custom asks unique_path for: custom/<name>_<w>x<h>.<fmt>.
CustomBase ==
    [dir |-> <<"custom">>, name |-> Stem(svg_path), w |-> widthSpin, h |-> heightSpin,
     n |-> 0, ext |-> Lower(currentFormat)]

\* C2: repeated Custom exports into one directory yield distinct files: an
\* export writes at most one file, exactly one when it reports success; the
\* file is custom/<name>_<w>x<h>.<fmt> with the smallest counter suffix
\* (none, _1, _2, ...) whose name was free, its name did not exist, and every
\* file of an earlier export is still there with its content.
C2_RepeatedCustomExports ==
    [][ ExportStep =>
          /\ \A p \in DOMAIN files : p \in DOMAIN files' /\ files'[p] = files[p]
          /\ Cardinality(DOMAIN files' \ DOMAIN files) <= 1
          /\ (msg' = "information: Done"
                => Cardinality(DOMAIN files' \ DOMAIN files) = 1)
          /\ \A p \in DOMAIN files' \ DOMAIN files :
                /\ p = [CustomBase EXCEPT !.n = p.n]
                /\ ~exists(files, p)
                /\ \A k \in 0..(p.n - 1) : exists(files, [CustomBase EXCEPT !.n = k])
      ]_vars

\* Three exports of one size and format into an empty directory: <stem>,
\* <stem>_1 and <stem>_2, each written by its own export.
C2_Witness ==
    /\ preK = {}
    /\ \E p \in DOMAIN files :
        /\ p.n = 0 /\ files[p].gen = 1
        /\ [p EXCEPT !.n = 1] \in DOMAIN files /\ files[[p EXCEPT !.n = 1]].gen = 2
        /\ [p EXCEPT !.n = 2] \in DOMAIN files /\ files[[p EXCEPT !.n = 2]].gen = 3

\* C3: with transparent = false every image handed to an encoder is RGB, in
\* every profile and format and for both source types, the ICO and ICNS base
\* images and the iconset frames of the ICNS fallback included.
C3_OpaqueMeansRGB ==
    [][ (ExportStep /\ ~transparentBg)
            => \A i \in DOMAIN trace' :
                   trace'[i].op \in {"save", "encode"} => trace'[i].mode = "RGB" ]_vars

\* The mode the format table gives a file: RGBA for PNG with transparency on,
\* RGB for everything else.
ModeFor(fmt, transparent) == IF fmt = "png" /\ transparent THEN "RGBA" ELSE "RGB"

\* C4: in the per-file profiles the mode of an image at the moment it is
\* serialized depends on (format, transparent) alone, for both source types:
\* JPG, BMP and PDF are flattened and written as RGB whatever the flag, PNG is
\* flattened to RGB with transparent = false and written as RGBA, unflattened,
\* with transparent = true.
C4_ModeByFormat ==
    [][ (ExportStep /\ ~IsContainerProfile(profile)) =>
          LET fmt == Lower(currentFormat) IN
          /\ fmt \in {"png", "jpg", "pdf", "bmp"}
          /\ \A i \in DOMAIN trace' :
                trace'[i].op = "save"
                    => /\ trace'[i].fmt = fmt
                       /\ trace'[i].mode = ModeFor(fmt, transparentBg)
          /\ \A p \in Touched :
                /\ files'[p].mode = ModeFor(fmt, transparentBg)
                /\ files'[p].flat = ~(fmt = "png" /\ transparentBg)
      ]_vars

\* A wallpaper export to JPG with transparency on: flattened RGB files.
C4_Witness ==
    /\ exports = 1
    /\ transparentBg
    /\ IsWallpaperProfile(profile)
    /\ msg = "information: Done"
    /\ \E p \in DOMAIN files : files[p].fmt = "jpg" /\ files[p].mode = "RGB" /\ files[p].flat

\* The precondition of the padded fit: the padding leaves a work area.
PaddingFits(r) == 2 * r.padding < Min(r.width, r.height)

\* C5: for width, height >= 1, padding >= 0 with 2*padding < min(width,
\* height) and any zoom (clamped into [0.1, 1.0]: above 1.0 it acts as 1.0,
\* below 0.1 as 0.1), the size asked of the rasterizer and the content placed
\* on the canvas stay within (width - 2*padding, height - 2*padding), also
\* when the rasterizer returns more than was asked; content is never upscaled.
C5_ContentWithinWorkArea ==
    (res.done /\ PaddingFits(req)) =>
        /\ res.render_w <= req.width - 2 * req.padding
        /\ res.render_h <= req.height - 2 * req.padding
        /\ res.content_w <= req.width - 2 * req.padding
        /\ res.content_h <= req.height - 2 * req.padding
        /\ res.content_w <= res.ret_w
        /\ res.content_h <= res.ret_h
        /\ (req.zoom >= 100 => /\ res.render_w = req.width - 2 * req.padding
                               /\ res.render_h = req.height - 2 * req.padding)
        /\ (req.zoom <= 10 => /\ res.render_w <= Max(1, (req.width - 2 * req.padding) \div 10)
                              /\ res.render_h <= Max(1, (req.height - 2 * req.padding) \div 10))

\* A zoom above 1.0 and a rasterizer answer larger than the work area.
C5_Witness ==
    /\ res.done
    /\ PaddingFits(req)
    /\ req.padding > 0
    /\ req.zoom > 100
    /\ res.ret_w > res.work_w
    /\ res.ret_h > res.work_h
    /\ res.content_w < res.ret_w

\* C6: for every render request, the degenerate ones with 2*padding >= width
\* or height included, the canvas is width x height, the content sits at
\* ((canvas_w - content_w) div 2, (canvas_h - content_h) div 2), both offsets
\* are >= 0 and the content lies inside the canvas; when the padding fits,
\* at least `padding` pixels stay free on every side.
C6_CenteredInsideCanvas ==
    res.done =>
        /\ res.canvas_w = req.width /\ res.canvas_h = req.height
        /\ 2 * res.cx <= res.canvas_w - res.content_w
        /\ res.canvas_w - res.content_w <= 2 * res.cx + 1
        /\ 2 * res.cy <= res.canvas_h - res.content_h
        /\ res.canvas_h - res.content_h <= 2 * res.cy + 1
        /\ res.cx >= 0 /\ res.cy >= 0
        /\ res.content_w >= 1 /\ res.content_h >= 1
        /\ res.cx + res.content_w <= res.canvas_w
        /\ res.cy + res.content_h <= res.canvas_h
        /\ (PaddingFits(req) =>
              /\ res.cx >= req.padding /\ res.cy >= req.padding
              /\ res.canvas_w - (res.cx + res.content_w) >= req.padding
              /\ res.canvas_h - (res.cy + res.content_h) >= req.padding)

\* A degenerate request: the padding swallows the canvas, the work area is
\* 1x1, and an oversized rasterizer answer is cut down to it.
C6_Witness ==
    /\ res.done
    /\ 2 * req.padding >= req.width
    /\ 2 * req.padding >= req.height
    /\ req.width > 1
    /\ res.ret_w > 1
    /\ res.content_w = 1 /\ res.content_h = 1

IsRender(e) == e.op = "render"

\* The file a size set or wallpaper export writes for the j-th size of the
\* profile: <label>/<name>/<name>_<w>x<h>.<fmt>, below wallpapers/ for the
\* wallpaper sets.
SetPath(j) ==
    LET sz == SizesOf(profile, widthSpin, heightSpin)[j]
        name == Stem(svg_path)
    IN [dir |-> IF IsWallpaperProfile(profile)
                THEN <<"wallpapers", LabelOf(profile), name>>
                ELSE <<LabelOf(profile), name>>,
        name |-> name, w |-> sz[1], h |-> sz[2], n |-> 0,
        ext |-> Lower(currentFormat)]

\* C7: in a size set or wallpaper export, when the i-th size fails to render
\* or to be written, no later size is rendered or written, the files of the
\* sizes before it are on disk, the error is shown and the success message is
\* not; the success message is shown only when every size was written.
C7_AbortOnFirstFailure ==
    [][ (ExportStep /\ (IsSetProfile(profile) \/ IsWallpaperProfile(profile))) =>
          LET sizes == SizesOf(profile, widthSpin, heightSpin)
              n == Len(sizes)
              renders == SelectSeq(trace', IsRender)
          IN
          /\ msg' \in {"information: Done", "critical: Error"}
          /\ (msg' = "critical: Error") = (lastErr' # NoErr)
          /\ (msg' = "information: Done") = (Touched = {SetPath(j) : j \in 1..n})
          /\ \E i \in 0..n :
                /\ Touched = {SetPath(j) : j \in 1..i}
                /\ \A j \in 1..i : files'[SetPath(j)].gen = exports'
                /\ Len(renders) \in {i, i + 1}
                /\ Len(renders) <= n
                /\ \A j \in 1..Len(renders) :
                      renders[j].w = sizes[j][1] /\ renders[j].h = sizes[j][2]
                /\ \A j \in 1..Len(trace') :
                      ~trace'[j].ok => (j = Len(trace') /\ lastErr' # NoErr)
      ]_vars

\* A size set export that failed part way: some sizes written, the rest
\* neither rendered nor written.
C7_Witness ==
    /\ exports = 1
    /\ IsSetProfile(profile)
    /\ msg = "critical: Error"
    /\ SetPath(2) \in DOMAIN files
    /\ SetPath(3) \notin DOMAIN files
    /\ Len(SelectSeq(trace, IsRender)) = 3

\* C8: when the first render of an export raises (invalid source, failing
\* rasterizer), the export fails with no file written, in every profile:
\* nothing is saved or encoded before the first render, and a render that
\* raises leaves the files of the tree as they were.
C8_NoFilesBeforeFirstRender ==
    [][ ExportStep =>
          /\ (trace' # << >> => trace'[1].op = "render")
          /\ ((trace' = << >> \/ ~trace'[1].ok)
                => /\ files' = files
                   /\ msg' = "critical: Error"
                   /\ lastErr' # NoErr)
      ]_vars

\* The first render raised after the output directory was made: directories,
\* but no file.
C8_Witness ==
    /\ exports = 1
    /\ Len(trace) = 1
    /\ trace[1].op = "render" /\ ~trace[1].ok
    /\ lastErr.type = "RenderError"
    /\ dirs # {}
    /\ files = << >>

\* The exception of a failing container encoder.
EncodeError == [type |-> "EncodeError", text |-> "encode", diag |-> "", cause |-> "none"]

InIconset(p) == p.dir = <<"macos", "icon.iconset">>

\* C9: in the ICNS export the OS-tool fallback (iconset PNGs, then iconutil)
\* runs only when the primary save raised and only on macOS; elsewhere the
\* save error propagates unchanged and no iconset file is made; a non-zero
\* exit of the tool fails the export with an error that carries the tool's
\* output and has the save error as its cause; after a successful primary
\* save no iconset file is made and the tool is not run.
C9_IcnsFallback ==
    [][ (ExportStep /\ profile = "Create macOS icon (.icns)") =>
          LET tr == trace'
              encs == {i \in DOMAIN tr : tr[i].op = "encode"}
              fallback == {i \in DOMAIN tr :
                             \/ tr[i].op = "iconutil"
                             \/ tr[i].op = "save"
                             \/ (tr[i].op = "render" /\ i > 1)}
          IN
          /\ Cardinality(encs) <= 1
          /\ \A p \in Touched : InIconset(p) => \E i \in fallback : tr[i].path = p
          /\ \A j \in fallback :
                /\ system = "Darwin"
                /\ \E i \in encs : i < j /\ ~tr[i].ok
          /\ \A i \in encs :
                /\ (tr[i].ok => /\ fallback = {}
                                /\ lastErr' = NoErr
                                /\ Touched = {tr[i].path})
                /\ ((~tr[i].ok /\ system # "Darwin")
                        => /\ fallback = {}
                           /\ lastErr' = EncodeError
                           /\ Touched = {}
                           /\ <<"macos", "icon.iconset">> \notin dirs')
                /\ ((~tr[i].ok /\ system = "Darwin" /\ lastErr' = NoErr)
                        => \E j \in fallback : tr[j].op = "iconutil" /\ tr[j].ok)
          /\ \A j \in DOMAIN tr :
                (tr[j].op = "iconutil" /\ ~tr[j].ok)
                    => /\ lastErr'.type = "RuntimeError"
                       /\ lastErr'.diag = ToolStderr
                       /\ lastErr'.cause = "EncodeError"
                       /\ msg' = "critical: Error"
      ]_vars

\* On macOS the primary save raised, the iconset was written and iconutil
\* exited non-zero.
C9_Witness ==
    /\ exports = 1
    /\ profile = "Create macOS icon (.icns)"
    /\ system = "Darwin"
    /\ lastErr.type = "RuntimeError"
    /\ lastErr.cause = "EncodeError"
    /\ \E p \in DOMAIN files : InIconset(p)

\* The formats the interface offers for a profile.
LegalFormats(p) ==
    CASE p = "Custom export" -> {"PNG", "JPG", "PDF", "BMP"}
      [] p = "Create Windows icon (.ico)" -> {"ICO"}
      [] p = "Create macOS icon (.icns)" -> {"ICNS"}
      [] OTHER -> {"PNG", "JPG", "BMP"}

\* C10: after any sequence of profile and format selections the format an
\* export reads is one of the formats legal for the selected profile; a
\* format chosen under an earlier profile does not survive into a profile
\* that does not offer it.
C10_FormatLegalForProfile == currentFormat \in LegalFormats(profile)

\* BMP chosen under a size set profile and read by an export.
C10_Witness ==
    /\ exports = 1
    /\ profile = "Create Android app icons"
    /\ currentFormat = "BMP"
    /\ \E p \in DOMAIN files : p.ext = "bmp"

\* C11: the image exported from a raster (PNG) source honours zoom and padding
\* as the compositor does for a vector source: for a request whose padding
\* fits, the content is bounded by the work area (width - 2*padding,
\* height - 2*padding), is centred on the canvas and leaves `padding` pixels
\* free on every side.
C11_RasterContentGeometry ==
    (res.done /\ PaddingFits(req)) =>
        /\ res.canvas_w = req.width /\ res.canvas_h = req.height
        /\ res.content_w <= res.work_w
        /\ res.content_h <= res.work_h
        /\ res.cx = (res.canvas_w - res.content_w) \div 2
        /\ res.cy = (res.canvas_h - res.content_h) \div 2
        /\ res.cx >= req.padding /\ res.cy >= req.padding

\* The directory, below the output root, that the layout gives the files of a
\* size set or wallpaper profile; portrait and landscape are the labels of
\* the two tablet sets.
LayoutDir(p, name, portrait, landscape) ==
    CASE p = "Create Linux icon PNGs" -> <<"linux", name>>
      [] p = "Create Android app icons" -> <<"android", name>>
      [] p = "Create iOS app icons" -> <<"ios", name>>
      [] p = "Export standard sizes: Computer" -> <<"wallpapers", "desktop", name>>
      [] p = "Export standard sizes: Phone" -> <<"wallpapers", "phone", name>>
      [] p = "Export tablet sizes: Portrait" -> <<"wallpapers", portrait, name>>
      [] p = "Export tablet sizes: Landscape" -> <<"wallpapers", landscape, name>>
      [] OTHER -> << >>

\* One file <dir>/<name>_<w>x<h>.<fmt> per entry of the profile's catalog.
LayoutPaths(portrait, landscape) ==
    LET sizes == SizesOf(profile, widthSpin, heightSpin)
        name == Stem(svg_path)
    IN { [dir |-> LayoutDir(profile, name, portrait, landscape), name |-> name,
          w |-> sizes[j][1], h |-> sizes[j][2], n |-> 0, ext |-> Lower(currentFormat)]
         : j \in 1..Len(sizes) }

\* The number of entries of each fixed catalog.
CatalogCount(p) ==
    CASE p = "Create Linux icon PNGs" -> 10
      [] p = "Create Android app icons" -> 6
      [] p = "Create iOS app icons" -> 7
      [] p = "Export standard sizes: Computer" -> 4
      [] p = "Export standard sizes: Phone" -> 4
      [] p = "Export tablet sizes: Portrait" -> 3
      [] p = "Export tablet sizes: Landscape" -> 3
      [] OTHER -> 0

\* A successful export of a size set or wallpaper profile into an empty
\* output root leaves exactly the files of the layout, written by this
\* export in the selected format.
WritesExactlyLayout(portrait, landscape) ==
    (/\ ExportStep
     /\ IsSetProfile(profile) \/ IsWallpaperProfile(profile)
     /\ preK = {} /\ files = << >>
     /\ msg' = "information: Done")
        => /\ DOMAIN files' = LayoutPaths(portrait, landscape)
           /\ Cardinality(DOMAIN files') = CatalogCount(profile)
           /\ \A p \in DOMAIN files' : files'[p].fmt = Lower(currentFormat)

\* C12 as stated: a successful size set or wallpaper export into an empty
\* output root writes exactly one file per catalog entry and nothing else,
\* <platform>/<name>/<name>_<s>x<s>.<fmt> for linux/android/ios and
\* wallpapers/<label>/<name>/<name>_<w>x<h>.<fmt> with label one of desktop,
\* phone, tablet-portrait, tablet-landscape.
C12_ExactlyCatalogFiles_Stated ==
    [][ WritesExactlyLayout("tablet-portrait", "tablet-landscape") ]_vars

\* C12 amended: the same, with the labels of the two tablet sets spelled with
\* an underscore: tablet_portrait and tablet_landscape.
C12_ExactlyCatalogFiles ==
    [][ WritesExactlyLayout("tablet_portrait", "tablet_landscape") ]_vars

\* A tablet portrait export to BMP into an empty root: three files below
\* wallpapers/tablet_portrait/<name>/.
C12_Witness ==
    /\ exports = 1
    /\ preK = {}
    /\ profile = "Export tablet sizes: Portrait"
    /\ msg = "information: Done"
    /\ Cardinality(DOMAIN files) = 3
    /\ \A p \in DOMAIN files :
          p.dir = <<"wallpapers", "tablet_portrait", "a">> /\ p.ext = "bmp"

\* The colour of a pixel, its alpha left aside.
ColourOf(mode, px) ==
    IF mode \in {"RGBA", "RGB"} THEN <<px[1], px[2], px[3]>> ELSE <<px[1], px[1], px[1]>>

\* C13: flatten is idempotent: for any image and background colour,
\* flatten(flatten(img)) equals flatten(img) pixel for pixel and in mode, and
\* the mode is RGB; a non-RGBA input comes back as RGB with its colours
\* unchanged; the alpha component of the background colour has no influence
\* on the result.
C13_FlattenIdempotent ==
    /\ res.n >= 1 =>
          /\ res.first.mode = "RGB"
          /\ DOMAIN res.first.px = DOMAIN req.img.px
          /\ (req.img.mode # "RGBA" =>
                \A i \in DOMAIN req.img.px :
                    res.first.px[i] = ColourOf(req.img.mode, req.img.px[i]))
          /\ \A a \in AlphaLevels :
                pillow_flatten_pixels(req.img, <<req.bg[1], req.bg[2], req.bg[3], a>>)
                    = res.first
    /\ res.n = 2 => res.out = res.first

\* A half-transparent RGBA pixel over a background that differs from it and
\* is itself half-transparent, flattened twice: a blended colour.
C13_Witness ==
    /\ res.n = 2
    /\ req.img.mode = "RGBA"
    /\ req.bg[4] = 128
    /\ \E i \in DOMAIN req.img.px :
          /\ req.img.px[i][4] = 128
          /\ req.img.px[i][1] = 200 /\ req.bg[1] = 0
          /\ res.out.px[i][1] \notin {0, 200}

\* The (w, h) pairs of the seven frames of the Windows icon.
IcoFrames ==
    << <<16, 16>>, <<24, 24>>, <<32, 32>>, <<48, 48>>, <<64, 64>>, <<128, 128>>,
       <<256, 256>> >>

\* p is the container <dir>/icon.<ext> under the smallest counter suffix
\* whose name was free before the export.
IsFreshIcon(p, dir, ext) ==
    /\ [p EXCEPT !.n = 0] = [dir |-> <<dir>>, name |-> "icon", w |-> 0, h |-> 0, n |-> 0,
                             ext |-> ext]
    /\ ~exists(files, p)
    /\ \A k \in 0..(p.n - 1) : exists(files, [p EXCEPT !.n = k])

\* C14: a Windows ICO export calls the renderer once, at 256x256, and hands
\* the container encoder that one base image with the explicit size list
\* {16,24,32,48,64,128,256}; it makes one file windows/icon.ico (suffixed
\* when the name is taken) and no per-size file.  An ICNS export renders once
\* at 1024x1024 before the primary save and renders the single sizes only in
\* the OS-tool fallback, after that save has raised.
C14_ContainerFromOneRender ==
    [][ (ExportStep /\ IsContainerProfile(profile)) =>
          LET tr == trace'
              renders == {i \in DOMAIN tr : tr[i].op = "render"}
              encs == {i \in DOMAIN tr : tr[i].op = "encode"}
              base == IF profile = "Create Windows icon (.ico)" THEN 256 ELSE 1024
          IN
          /\ tr # << >> => (tr[1].op = "render" /\ tr[1].w = base /\ tr[1].h = base)
          /\ Cardinality(encs) <= 1
          /\ \A i \in encs :
                /\ i = 2 /\ tr[1].ok
                /\ tr[i].w = base /\ tr[i].h = base
          /\ msg' = "information: Done" => Cardinality(encs) = 1
          /\ \A i \in renders : i > 1 => \E j \in encs : j < i /\ ~tr[j].ok
          /\ profile = "Create Windows icon (.ico)" =>
                /\ renders \subseteq {1}
                /\ \A i \in DOMAIN tr : tr[i].op \in {"render", "encode"}
                /\ \A i \in encs :
                      /\ tr[i].sizes = IcoFrames
                      /\ tr[i].fmt = "ico"
                      /\ IsFreshIcon(tr[i].path, "windows", "ico")
                      /\ Touched = IF tr[i].ok THEN {tr[i].path} ELSE {}
                /\ encs = {} => Touched = {}
          /\ profile = "Create macOS icon (.icns)" =>
                \A i \in encs :
                    /\ IsFreshIcon(tr[i].path, "macos", "icns")
                    /\ tr[i].ok => (renders = {1} /\ Touched = {tr[i].path})
      ]_vars

\* An ICO export into a directory that already holds icon.ico: one render,
\* one container save, the file icon_1.ico.
C14_Witness ==
    /\ exports = 1
    /\ profile = "Create Windows icon (.ico)"
    /\ preK = {0}
    /\ msg = "information: Done"
    /\ Len(trace) = 2
    /\ trace[2].sizes = IcoFrames
    /\ DOMAIN files = {[dir |-> <<"windows">>, name |-> "icon", w |-> 0, h |-> 0, n |-> 1,
                        ext |-> "ico"]}

\* The message boxes an export ends with.
ExportMessages == {"information: Done", "critical: Error"}

\* C15: over every sequence of form events (a load accepted or cancelled, a
\* profile or parameter change, Create with the directory chooser answered or
\* cancelled): Create is enabled only while a source path is set; a source
\* path once set is never cleared; the source path and the Create state
\* change only by an accepted load, which sets both; the filesystem is
\* written only by an export, which needs a source and a chosen directory;
\* a step that is not an export (a cancelled chooser among them) writes
\* nothing and shows neither the success nor the error message.
C15_FormSafety ==
    /\ createEnabled => svg_path # ""
    /\ [][ /\ createEnabled' => svg_path' # ""
           /\ svg_path # "" => svg_path' # ""
           /\ svg_path' # svg_path =>
                 (svg_path' \in LoadChoices /\ pathLine' = svg_path' /\ createEnabled')
           /\ createEnabled' # createEnabled =>
                 (createEnabled' /\ svg_path = "" /\ svg_path' # "")
           /\ (files' # files \/ dirs' # dirs) => (ExportStep /\ svg_path # "")
           /\ ExportStep => (createEnabled /\ svg_path # "" /\ msg' \in ExportMessages)
           /\ ~ExportStep =>
                 /\ files' = files /\ dirs' = dirs /\ trace' = trace
                 /\ msg' \in ExportMessages => msg' = msg
         ]_vars

\* A PNG source loaded over an SVG one, the profile and the transparency
\* changed, then an export that wrote files.
C15_Witness ==
    /\ exports = 1
    /\ createEnabled
    /\ svg_path = "a.png"
    /\ profile = "Create iOS app icons"
    /\ ~transparentBg
    /\ files # << >>
    /\ msg = "information: Done"

====
